---- MODULE Spec2Model ----
(***************************************************************************)
(* Model of the serverless-heatmap repository:                             *)
(*   - the OpenCelliD harvester  (src/fetch_opencellid_barbados.py)        *)
(*   - the psql-only ETL pipeline (src/etl/etl.py)                         *)
(* Each program is a sequential process; every action is one step of its   *)
(* main(), with the external collaborators (registry, psql, the database)  *)
(* answering nondeterministically within the outcomes they can produce.    *)
(***************************************************************************)
EXTENDS Integers, Sequences, FiniteSets, TLC

VARIABLES
    \* ---- harvester: configuration read at import time
    LAT_MIN, LON_MIN, LAT_MAX, LON_MAX, STEP_LAT, STEP_LON,
    \* ---- harvester: locals of main()
    hpc, lat, lon, lat_top, lon_right, tiles_visited, count, pages, offset,
    page_i, wrote_header, total_rows_written,
    \* ---- harvester: the output file and what was observed of the run
    out_header, visited, reported, tile_pages, tile_rows, tile_clean,
    sum_counts, all_clean, attempts, slept, hevent, hprinted

hvars == <<LAT_MIN, LON_MIN, LAT_MAX, LON_MAX, STEP_LAT, STEP_LON,
           hpc, lat, lon, lat_top, lon_right, tiles_visited, count, pages,
           offset, page_i, wrote_header, total_rows_written,
           out_header, visited, reported, tile_pages, tile_rows, tile_clean,
           sum_counts, all_clean, attempts, slept, hevent, hprinted>>

VARIABLES
    \* ---- pipeline: the environment of the run
    towers_csv,      \* the towers CSV: {} when the file is missing, else {rows}
    ookla_parquet,   \* OOKLA_PARQUET: "unset", "missing" or "present"
    \* ---- pipeline: the spatial store, the output files, the process
    db, files, pc, exit_status, calls, log,
    \* ---- pipeline: what an earlier run of the program left behind, for
    \* comparison: {} on a first run, else {[db, files]} as that run ended
    first_run

evars == <<towers_csv, ookla_parquet, db, files, pc, exit_status, calls, log,
           first_run>>

vars == <<hvars, evars>>

Min(a, b) == IF a <= b THEN a ELSE b
Max(a, b) == IF a >= b THEN a ELSE b

(***************************************************************************)
(* Harvester                                                               *)
(***************************************************************************)

\* Pagination settings of the harvester.
LIMIT == 50
max_retries == 3

\* Bounds of the model: coordinates are fixed-point integers.
MaxExtent == 3
MaxStep == 3
MaxPages == 2

\* Counts the registry may report for a tile: around every page boundary.
Counts == {n \in 0..((MaxPages - 1) * LIMIT + 1) : n % LIMIT \in {0, 1}}

\* A plausible slip of the page computation: integer division, no rounding up.
CeilDiv_Floor(a, b) == a \div b

\* math.ceil(count / LIMIT)
CeilDiv(a, b) == (a + b - 1) \div b

\* A plausible slip of the tile edge: the last row/column is not clipped.
ClipEdge_NoClip(x, step, hi) == x + step

\* min(lat + STEP_LAT, LAT_MAX) and min(lon + STEP_LON, LON_MAX)
ClipEdge(x, step, hi) == Min(x + step, hi)

\* The registry's answer to getInArea: a header line, then the records at
\* that offset (at most LIMIT), then the trailing blank line of the body.
RegistryPage(n, off) ==
    <<"header">> \o [k \in 1..Min(LIMIT, Max(0, n - off)) |-> "row"] \o <<"">>

\* lines = [ln for ln in csv_text.splitlines() if ln.strip()]
IsNonBlank(ln) == ln # ""
NonBlankLines(text) == SelectSeq(text, IsNonBlank)

\* A plausible slip of the row loop: the page's own header line is kept.
DataRows_KeepHeader(lines) == lines

\* for row in lines[1:]
DataRows(lines) == Tail(lines)

\* req(): up to max_retries attempts, returning on the first success.
\* fails = number of attempts that failed; all failed iff fails = max_retries.
\* A plausible slip: one attempt more than max_retries (an off-by-one range).
ReqAttempts_OneMore(fails) ==
    IF fails >= max_retries + 1 THEN max_retries + 1 ELSE fails + 1

ReqAttempts(fails) == IF fails >= max_retries THEN max_retries ELSE fails + 1
ReqRaises(fails) == fails >= max_retries
\* except Exception: time.sleep(0.5) after every attempt that failed
ReqSleeps(fails) == Min(fails, ReqAttempts(fails))
\* What one call of req() did when the registry failed `fails` times in a row.
Req(fails) ==
    [made |-> ReqAttempts(fails), sleeps |-> ReqSleeps(fails),
     raised |-> ReqRaises(fails)]

HInit ==
    /\ LAT_MIN \in 0..1
    /\ LON_MIN \in 0..1
    /\ LAT_MAX \in LAT_MIN..MaxExtent
    /\ LON_MAX \in LON_MIN..MaxExtent
    /\ STEP_LAT \in 2..MaxStep
    /\ STEP_LON \in 2..MaxStep
    /\ hpc = "outer"
    /\ lat = LAT_MIN
    \* lon, lat_top, lon_right and count are unbound until first assigned and
    \* never read before; they start at 0 here.
    /\ lon = 0
    /\ lat_top = 0
    /\ lon_right = 0
    /\ tiles_visited = 0
    /\ count = 0
    /\ pages = 0
    /\ offset = 0
    /\ page_i = 0
    /\ wrote_header = FALSE
    /\ total_rows_written = 0
    /\ out_header = <<>>
    /\ visited = <<>>
    /\ reported = FALSE
    /\ tile_pages = 0
    /\ tile_rows = 0
    /\ tile_clean = TRUE
    /\ sum_counts = 0
    /\ all_clean = TRUE
    /\ attempts = [made |-> 0, sleeps |-> 0, raised |-> FALSE]
    /\ slept = TRUE
    /\ hevent = "start"
    /\ hprinted = FALSE

HConfig == <<LAT_MIN, LON_MIN, LAT_MAX, LON_MAX, STEP_LAT, STEP_LON>>

\* while lat < LAT_MAX: lat_top = min(lat + STEP_LAT, LAT_MAX); lon = LON_MIN
OuterLoop ==
    /\ hpc = "outer"
    /\ IF lat < LAT_MAX
       THEN /\ lat_top' = ClipEdge(lat, STEP_LAT, LAT_MAX)
            /\ lon' = LON_MIN
            /\ hpc' = "inner"
       ELSE /\ hpc' = "done"
            /\ UNCHANGED <<lat_top, lon>>
    /\ UNCHANGED <<evars, HConfig, lat, lon_right, tiles_visited, count, pages, offset,
                   page_i, wrote_header, total_rows_written, out_header,
                   visited, reported, tile_pages, tile_rows, tile_clean,
                   sum_counts, all_clean, attempts, slept, hevent, hprinted>>

\* while lon < LON_MAX: lon_right = min(lon + STEP_LON, LON_MAX); bbox;
\* tiles_visited += 1        (else: lat = lat_top)
InnerLoop ==
    /\ hpc = "inner"
    /\ IF lon < LON_MAX
       THEN /\ lon_right' = ClipEdge(lon, STEP_LON, LON_MAX)
            /\ tiles_visited' = tiles_visited + 1
            /\ visited' = Append(visited,
                   [latmin |-> lat, lonmin |-> lon, latmax |-> lat_top,
                    lonmax |-> ClipEdge(lon, STEP_LON, LON_MAX)])
            /\ reported' = FALSE
            /\ tile_pages' = 0
            /\ tile_rows' = 0
            /\ tile_clean' = TRUE
            /\ hpc' = "size"
            /\ UNCHANGED lat
       ELSE /\ lat' = lat_top
            /\ hpc' = "outer"
            /\ UNCHANGED <<lon_right, tiles_visited, visited, reported,
                           tile_pages, tile_rows, tile_clean>>
    /\ UNCHANGED <<evars, HConfig, lon, lat_top, count, pages, offset, page_i,
                   wrote_header, total_rows_written, out_header, sum_counts,
                   all_clean, attempts, slept, hevent, hprinted>>

\* count = get_size(bbox) returned n (the registry's count); if count > 0 the
\* page loop is set up, otherwise the tile is finished: lon = lon_right; sleep.
SizeReturns(n, fails, ev) ==
    /\ count' = n
    /\ attempts' = Req(fails)
    /\ hevent' = ev
    /\ hprinted' = (n > 0)
    /\ IF n > 0
       THEN /\ pages' = CeilDiv(n, LIMIT)
            /\ offset' = 0
            /\ page_i' = 0
            /\ slept' = FALSE
            /\ hpc' = "page"
            /\ UNCHANGED lon
       ELSE /\ lon' = lon_right
            /\ slept' = TRUE
            /\ hpc' = "inner"
            /\ UNCHANGED <<pages, offset, page_i>>
    /\ UNCHANGED <<evars, HConfig, lat, lat_top, lon_right, tiles_visited,
                   wrote_header, total_rows_written, out_header, visited,
                   tile_pages, tile_rows>>

GetSizeOk ==
    /\ hpc = "size"
    /\ \E n \in Counts, fails \in 0..(max_retries - 1) :
          /\ SizeReturns(n, fails, "size_ok")
          /\ reported' = TRUE
          /\ sum_counts' = sum_counts + n
          /\ UNCHANGED <<tile_clean, all_clean>>

\* get_size: the response body does not parse; except Exception: return 0
GetSizeUnparsable ==
    /\ hpc = "size"
    /\ \E fails \in 0..(max_retries - 1) :
          /\ SizeReturns(0, fails, "size_unparsable")
          /\ reported' = TRUE
          /\ tile_clean' = FALSE
          /\ all_clean' = FALSE
          /\ UNCHANGED sum_counts

\* A plausible slip of the handler: the failure ends the harvest.
GetSizeFails_Abort ==
    /\ hpc = "size"
    /\ attempts' = Req(max_retries)
    /\ hevent' = "size_failed"
    /\ hprinted' = TRUE
    /\ tile_clean' = FALSE
    /\ all_clean' = FALSE
    /\ hpc' = "aborted"
    /\ UNCHANGED <<evars, HConfig, lat, lon, lat_top, lon_right, tiles_visited, count,
                   pages, offset, page_i, wrote_header, total_rows_written,
                   out_header, visited, reported, tile_pages, tile_rows,
                   sum_counts, slept>>

\* get_size raised (every attempt of req failed): WARNING, lon = lon_right,
\* sleep, continue
GetSizeFails ==
    /\ hpc = "size"
    /\ attempts' = Req(max_retries)
    /\ ReqRaises(max_retries)
    /\ hevent' = "size_failed"
    /\ hprinted' = TRUE
    /\ lon' = lon_right
    /\ slept' = TRUE
    /\ tile_clean' = FALSE
    /\ all_clean' = FALSE
    /\ hpc' = "inner"
    /\ UNCHANGED <<evars, HConfig, lat, lat_top, lon_right, tiles_visited, count,
                   pages, offset, page_i, wrote_header, total_rows_written,
                   out_header, visited, reported, tile_pages, tile_rows,
                   sum_counts>>

\* One iteration of `for _ in range(pages)` whose get_page_csv returned text.
PageBody(text, fails, ev) ==
    LET lines == NonBlankLines(text) IN
    /\ hpc = "page"
    /\ page_i < pages
    /\ attempts' = Req(fails)
    /\ tile_pages' = tile_pages + 1
    /\ page_i' = page_i + 1
    /\ offset' = offset + LIMIT
    /\ slept' = TRUE
    /\ hevent' = ev
    /\ hprinted' = FALSE
    /\ IF lines = <<>>
       THEN UNCHANGED <<wrote_header, out_header, total_rows_written, tile_rows>>
       ELSE /\ wrote_header' = TRUE
            /\ out_header' = IF wrote_header THEN out_header ELSE <<Head(lines)>>
            /\ total_rows_written' = total_rows_written + Len(DataRows(lines))
            /\ tile_rows' = tile_rows + Len(DataRows(lines))
    /\ UNCHANGED <<evars, HConfig, hpc, lat, lon, lat_top, lon_right, tiles_visited,
                   count, pages, visited, reported, sum_counts>>

PageFetchOk ==
    /\ \E fails \in 0..(max_retries - 1) :
          PageBody(RegistryPage(count, offset), fails, "page_ok")
    /\ UNCHANGED <<tile_clean, all_clean>>

\* The registry answered with an empty body: `if not lines: ... continue`
PageFetchEmpty ==
    /\ \E fails \in 0..(max_retries - 1) : PageBody(<<"">>, fails, "page_empty")
    /\ tile_clean' = FALSE
    /\ all_clean' = FALSE

\* get_page_csv raised: WARNING, offset += LIMIT, sleep, continue
PageFetchFails ==
    /\ hpc = "page"
    /\ page_i < pages
    /\ attempts' = Req(max_retries)
    /\ ReqRaises(max_retries)
    /\ tile_pages' = tile_pages + 1
    /\ page_i' = page_i + 1
    /\ offset' = offset + LIMIT
    /\ slept' = TRUE
    /\ hevent' = "page_failed"
    /\ hprinted' = TRUE
    /\ tile_clean' = FALSE
    /\ all_clean' = FALSE
    /\ UNCHANGED <<evars, HConfig, hpc, lat, lon, lat_top, lon_right, tiles_visited,
                   count, pages, wrote_header, total_rows_written, out_header,
                   visited, reported, tile_rows, sum_counts>>

\* The page loop is exhausted: lon = lon_right; time.sleep(SLEEP_BETWEEN_CALLS)
PagesDone ==
    /\ hpc = "page"
    /\ page_i >= pages
    /\ lon' = lon_right
    /\ slept' = TRUE
    /\ hpc' = "inner"
    /\ UNCHANGED <<evars, HConfig, lat, lat_top, lon_right, tiles_visited, count,
                   pages, offset, page_i, wrote_header, total_rows_written,
                   out_header, visited, reported, tile_pages, tile_rows,
                   tile_clean, sum_counts, all_clean, attempts, hevent,
                   hprinted>>

(***************************************************************************)
(* ETL pipeline: data model                                                *)
(*                                                                         *)
(* A nullable SQL value is a set: {} is NULL and {v} is the value v.        *)
(* Geometry is one-dimensional: a point is an integer, a polygon a set of   *)
(* integers, ST_Intersects is membership, ST_DistanceSphere is |a - b|.     *)
(***************************************************************************)

\* Bound of the model: rows in the towers CSV.
MaxTowers == 2

SqlNull == {}
Some(v) == {v}
IsNull(x) == x = {}
Val(x) == CHOOSE v \in x : TRUE

\* ST_MakeEnvelope(-59.95, 13.03, -59.35, 13.40, 4326): the area of interest
Envelope == 1..9

\* Raw radio labels of the CSV, as character sequences (NULL: empty field).
Labels == {SqlNull, Some(<<"L", "T", "E">>), Some(<<"N", "R">>)}

\* Tower positions (lon, lat): missing, on the edge shared by tiles 1 and 2,
\* inside tile 2 only.
Positions == {SqlNull, Some(4), Some(8)}

CsvRows == [pos : Positions, radio : Labels]

\* Speed tiles the base table may hold, by ogc_fid: two polygons inside the
\* area of interest that share an edge, one polygon outside it, and one row
\* whose WKT is not a polygon.
TileIds == {1, 2, 3, 4}

TileWkt(fid) ==
    CASE fid = 1 -> [kind |-> "POLYGON", cells |-> {2, 3, 4}]
      [] fid = 2 -> [kind |-> "POLYGON", cells |-> {4, 5, 6, 7, 8}]
      [] fid = 3 -> [kind |-> "POLYGON", cells |-> {12, 13, 14}]
      [] OTHER   -> [kind |-> "MULTIPOLYGON", cells |-> {4, 5, 6}]

BaseRow(fid) ==
    [ogc_fid |-> fid, tile |-> TileWkt(fid), geom |-> SqlNull,
     avg_d_kbps |-> 1000 * fid, avg_u_kbps |-> 100 * fid]

\* Names of the relations of the store.
T_TOWERS == "cell_towers.bb_towers"
T_BASE == "ookla_tiles.raw_mobile_q1_2024"
T_BB == "ookla_tiles.raw_mobile_q1_2024_bb"

AnalysisTables ==
    {"towers_per_tile", "towers_per_tile_lte", "towers_per_tile_5g",
     "ookla_centroids", "nearest_lte_distance", "nearest_5g_distance",
     "tile_lte_summary", "tile_5g_summary"}

EmptyDb ==
    [postgis |-> FALSE, schemas |-> {}, tables |-> {},
     towers |-> <<>>, towers_cols |-> {},
     base |-> {}, base_cols |-> {}, bb |-> {},
     towers_per_tile |-> {}, towers_per_tile_lte |-> {},
     towers_per_tile_5g |-> {}, ookla_centroids |-> {},
     nearest_lte_distance |-> {}, nearest_5g_distance |-> {},
     tile_lte_summary |-> {}, tile_5g_summary |-> {}]

\* to_regclass('<qualified_table>') IS NOT NULL
pg_table_exists(d, qualified_table) == qualified_table \in d.tables

(***************************************************************************)
(* SQL of the pipeline, as functions of the store                          *)
(***************************************************************************)

\* DROP TABLE IF EXISTS towers; CREATE TABLE towers (lat, lon, ..., radio, ...)
SqlCreateTowers(d) ==
    [d EXCEPT !.tables = @ \cup {T_TOWERS}, !.towers = <<>>, !.towers_cols = {}]

\* \copy towers (cols) FROM csv WITH (FORMAT csv, HEADER true): rows appended
SqlCopyTowers(d, rows) ==
    [d EXCEPT !.towers =
        @ \o [i \in 1..Len(rows) |->
                [pos |-> rows[i].pos, radio |-> rows[i].radio,
                 geom |-> SqlNull, radio_norm |-> SqlNull]]]

\* sql_fix_towers: add geom if the column is missing and fill it from lon/lat
SqlFixTowers(d) ==
    IF "geom" \in d.towers_cols THEN d
    ELSE [d EXCEPT !.towers_cols = @ \cup {"geom"},
                   !.towers = [i \in 1..Len(d.towers) |->
                       [d.towers[i] EXCEPT !.geom = d.towers[i].pos]]]

\* ST_GeomFromText(tile, 4326) for a row WHERE geom IS NULL AND tile LIKE 'POLYGON(%'
DecodeTile(r) ==
    IF IsNull(r.geom) /\ r.tile.kind = "POLYGON"
    THEN [r EXCEPT !.geom = Some(r.tile.cells)]
    ELSE r

\* ST_Intersects(polygon, envelope)
IntersectsEnvelope(g) == ~IsNull(g) /\ Val(g) \cap Envelope # {}

\* sql_geom: decode the base geometry, then DROP/CREATE the region subset
SqlGeom(d) ==
    LET decoded == {DecodeTile(r) : r \in d.base} IN
    [d EXCEPT !.base_cols = @ \cup {"geom"},
              !.base = decoded,
              !.tables = @ \cup {T_BB},
              !.bb = {r \in decoded : IntersectsEnvelope(r.geom)}]

\* ---- sql_normalize_radio ------------------------------------------------

LowerChars == <<"a", "b", "c", "d", "e", "f", "g", "h", "i", "j", "k", "l", "m",
                "n", "o", "p", "q", "r", "s", "t", "u", "v", "w", "x", "y", "z">>
UpperChars == <<"A", "B", "C", "D", "E", "F", "G", "H", "I", "J", "K", "L", "M",
                "N", "O", "P", "Q", "R", "S", "T", "U", "V", "W", "X", "Y", "Z">>

UpperChar(c) ==
    IF \E i \in 1..Len(LowerChars) : LowerChars[i] = c
    THEN UpperChars[CHOOSE i \in 1..Len(LowerChars) : LowerChars[i] = c]
    ELSE c

\* upper(text)
Upper(s) == [i \in 1..Len(s) |-> UpperChar(s[i])]

\* coalesce(x, dflt)
Coalesce(x, dflt) == IF IsNull(x) THEN dflt ELSE Val(x)

\* the character class [A-Z]
IsAZ(c) == \E i \in 1..Len(UpperChars) : UpperChars[i] = c

\* s LIKE '%sub%' / an unanchored regular-expression literal
Contains(s, sub) ==
    \E i \in 1..(Len(s) - Len(sub) + 1) : SubSeq(s, i, i + Len(sub) - 1) = sub

\* (?:^|[^A-Z])NR(?:$|[^A-Z])
StandaloneNR(s) ==
    \E i \in 1..(Len(s) - 1) :
       /\ s[i] = "N" /\ s[i + 1] = "R"
       /\ (i = 1 \/ ~IsAZ(s[i - 1]))
       /\ (i + 1 = Len(s) \/ ~IsAZ(s[i + 2]))

\* s ~ '(?:^|[^A-Z])NR(?:$|[^A-Z])|^5G$|5G_NR|NR5G|NSA5G'
Matches5G(s) ==
    \/ StandaloneNR(s)
    \/ s = <<"5", "G">>
    \/ Contains(s, <<"5", "G", "_", "N", "R">>)
    \/ Contains(s, <<"N", "R", "5", "G">>)
    \/ Contains(s, <<"N", "S", "A", "5", "G">>)

Names3G == {<<"U", "M", "T", "S">>, <<"W", "C", "D", "M", "A">>,
            <<"H", "S", "P", "A">>, <<"H", "S", "P", "A", "+">>, <<"3", "G">>}
Names2G == {<<"G", "S", "M">>, <<"E", "D", "G", "E">>, <<"2", "G">>}

\* A plausible slip: the broad LTE rule is tested before the 5G patterns.
RadioNorm_LteFirst(radio) ==
    LET u == Upper(Coalesce(radio, <<>>)) IN
    IF Contains(u, <<"L", "T", "E">>) THEN "LTE"
    ELSE IF Matches5G(u) THEN "5G"
    ELSE IF u \in Names3G THEN "3G"
    ELSE IF u \in Names2G THEN "2G"
    ELSE "OTHER"

\* The CASE expression of sql_normalize_radio: the first matching WHEN wins.
RadioNorm(radio) ==
    LET u == Upper(Coalesce(radio, <<>>)) IN
    IF Matches5G(u) THEN "5G"
    ELSE IF Contains(u, <<"L", "T", "E">>) THEN "LTE"
    ELSE IF u \in Names3G THEN "3G"
    ELSE IF u \in Names2G THEN "2G"
    ELSE "OTHER"

\* A plausible slip: the null test is moved into the CASE as its only guard
\* (CASE WHEN radio_norm IS NULL THEN ... END, no WHERE, no ELSE), so a
\* labelled row is updated to NULL.
SqlNormalizeRadio_GuardInCase(d) ==
    [d EXCEPT !.towers_cols = @ \cup {"radio_norm"},
              !.towers = [i \in 1..Len(d.towers) |->
                  [d.towers[i] EXCEPT
                     !.radio_norm = IF IsNull(d.towers[i].radio_norm)
                                    THEN Some(RadioNorm(d.towers[i].radio))
                                    ELSE SqlNull]]]

\* ALTER TABLE ... ADD COLUMN IF NOT EXISTS radio_norm;
\* UPDATE ... SET radio_norm = CASE ... END WHERE radio_norm IS NULL
SqlNormalizeRadio(d) ==
    [d EXCEPT !.towers_cols = @ \cup {"radio_norm"},
              !.towers = [i \in 1..Len(d.towers) |->
                  IF IsNull(d.towers[i].radio_norm)
                  THEN [d.towers[i] EXCEPT
                           !.radio_norm = Some(RadioNorm(d.towers[i].radio))]
                  ELSE d.towers[i]]]

\* ---- analysis tables ----------------------------------------------------

RECURSIVE SumOver(_)
\* SUM of f[r] over the rows r in DOMAIN f
SumOver(f) ==
    IF DOMAIN f = {} THEN 0
    ELSE LET r == CHOOSE x \in DOMAIN f : TRUE IN
         f[r] + SumOver([x \in DOMAIN f \ {r} |-> f[x]])

\* ST_Intersects(o.geom, t.geom): NULL (not true) when either side is NULL
ST_Intersects(g, p) == ~IsNull(g) /\ ~IsNull(p) /\ Val(p) \in Val(g)

\* A plausible slip of the join: an inner join drops tiles without towers.
JoinTowers_Inner(bb, towers) ==
    {[o |-> o, t |-> Some(i)] :
        <<o, i>> \in {x \in bb \X (1..Len(towers)) :
                         ST_Intersects(x[1].geom, towers[x[2]].geom)}}

\* FROM bb o LEFT JOIN towers t ON ST_Intersects(o.geom, t.geom)
\* (t is the index of the tower row, NULL for a tile without a match)
JoinTowers(bb, towers) ==
    UNION {LET m == {i \in 1..Len(towers) : ST_Intersects(o.geom, towers[i].geom)}
           IN IF m = {} THEN {[o |-> o, t |-> SqlNull]}
              ELSE {[o |-> o, t |-> Some(i)] : i \in m}
           : o \in bb}

\* GROUP BY o.ogc_fid
GroupKeys(J) == {j.o.ogc_fid : j \in J}
GroupOf(J, fid) == {j \in J : j.o.ogc_fid = fid}

\* COUNT(t.*)
CountTowers(G) == Cardinality({j \in G : ~IsNull(j.t)})

\* SUM(CASE WHEN t.radio_norm = c THEN 1 ELSE 0 END)
SumCategory(G, towers, c) ==
    SumOver([j \in G |->
        IF ~IsNull(j.t) /\ towers[Val(j.t)].radio_norm = Some(c) THEN 1 ELSE 0])

\* AVG(o.avg_d_kbps)::numeric(12,2), AVG(o.avg_u_kbps)::numeric(12,2)
AvgDownload(G) == SumOver([j \in G |-> j.o.avg_d_kbps]) \div Cardinality(G)
AvgUpload(G) == SumOver([j \in G |-> j.o.avg_u_kbps]) \div Cardinality(G)

SqlTowersPerTile(d) ==
    LET J == JoinTowers(d.bb, d.towers) IN
    {[tile_id |-> fid,
      towers_all |-> CountTowers(GroupOf(J, fid)),
      avg_download_kbps |-> AvgDownload(GroupOf(J, fid)),
      avg_upload_kbps |-> AvgUpload(GroupOf(J, fid))] : fid \in GroupKeys(J)}

SqlTowersPerTileLte(d) ==
    LET J == JoinTowers(d.bb, d.towers) IN
    {[tile_id |-> fid,
      towers_lte |-> SumCategory(GroupOf(J, fid), d.towers, "LTE"),
      avg_download_kbps |-> AvgDownload(GroupOf(J, fid)),
      avg_upload_kbps |-> AvgUpload(GroupOf(J, fid))] : fid \in GroupKeys(J)}

SqlTowersPerTile5g(d) ==
    LET J == JoinTowers(d.bb, d.towers) IN
    {[tile_id |-> fid,
      towers_5g |-> SumCategory(GroupOf(J, fid), d.towers, "5G"),
      avg_download_kbps |-> AvgDownload(GroupOf(J, fid)),
      avg_upload_kbps |-> AvgUpload(GroupOf(J, fid))] : fid \in GroupKeys(J)}

SetMin(S) == CHOOSE x \in S : \A y \in S : x <= y
SetMax(S) == CHOOSE x \in S : \A y \in S : x >= y

\* ST_Centroid(o.geom)
ST_Centroid(g) == IF IsNull(g) THEN SqlNull
                  ELSE Some((SetMin(Val(g)) + SetMax(Val(g))) \div 2)

\* ST_DistanceSphere(a, b): NULL when either side is NULL
ST_DistanceSphere(a, b) ==
    IF IsNull(a) \/ IsNull(b) THEN SqlNull
    ELSE Some(IF Val(a) >= Val(b) THEN Val(a) - Val(b) ELSE Val(b) - Val(a))

\* SELECT o.ogc_fid AS tile_id, ST_Centroid(o.geom) AS geom FROM bb o
SqlCentroids(d) ==
    {[tile_id |-> o.ogc_fid, geom |-> ST_Centroid(o.geom)] : o \in d.bb}

\* MIN(x) over a set of nullable values: NULLs are skipped
MinOf(xs) == LET vs == UNION xs IN IF vs = {} THEN SqlNull ELSE Some(SetMin(vs))

\* SELECT c.tile_id, MIN(ST_DistanceSphere(c.geom, t.geom))
\* FROM centroids c JOIN towers t ON t.radio_norm = cat GROUP BY c.tile_id
NearestDistance(centroids, towers, cat) ==
    LET J == {x \in centroids \X (1..Len(towers)) :
                 towers[x[2]].radio_norm = Some(cat)} IN
    {[tile_id |-> id,
      meters |-> MinOf({ST_DistanceSphere(x[1].geom, towers[x[2]].geom) :
                           x \in {y \in J : y[1].tile_id = id}})]
        : id \in {x[1].tile_id : x \in J}}

\* A plausible slip of the summary: an inner join with the distance table.
JoinDistance_Inner(counts, nearest) ==
    {[l |-> x[1], meters |-> x[2].meters] :
        x \in {y \in counts \X nearest : y[2].tile_id = y[1].tile_id}}

\* FROM counts l LEFT JOIN nearest d USING (tile_id)
JoinDistance(counts, nearest) ==
    UNION {LET m == {n \in nearest : n.tile_id = l.tile_id} IN
           IF m = {} THEN {[l |-> l, meters |-> SqlNull]}
           ELSE {[l |-> l, meters |-> n.meters] : n \in m}
           : l \in counts}

SqlTileLteSummary(counts, nearest) ==
    {[tile_id |-> x.l.tile_id, towers_lte |-> x.l.towers_lte,
      avg_download_kbps |-> x.l.avg_download_kbps,
      avg_upload_kbps |-> x.l.avg_upload_kbps,
      meters_to_nearest_lte |-> x.meters] : x \in JoinDistance(counts, nearest)}

SqlTile5gSummary(counts, nearest) ==
    {[tile_id |-> x.l.tile_id, towers_5g |-> x.l.towers_5g,
      avg_download_kbps |-> x.l.avg_download_kbps,
      avg_upload_kbps |-> x.l.avg_upload_kbps,
      meters_to_nearest_5g |-> x.meters] : x \in JoinDistance(counts, nearest)}

\* The analysis block: every table dropped and created again, in order.
SqlAnalysis(d) ==
    LET cen == SqlCentroids(d)
        lte == SqlTowersPerTileLte(d)
        g5 == SqlTowersPerTile5g(d)
        nlte == NearestDistance(cen, d.towers, "LTE")
        n5g == NearestDistance(cen, d.towers, "5G") IN
    [d EXCEPT !.schemas = @ \cup {"analysis"},
              !.tables = @ \cup AnalysisTables,
              !.towers_per_tile = SqlTowersPerTile(d),
              !.towers_per_tile_lte = lte,
              !.towers_per_tile_5g = g5,
              !.ookla_centroids = cen,
              !.nearest_lte_distance = nlte,
              !.nearest_5g_distance = n5g,
              !.tile_lte_summary = SqlTileLteSummary(lte, nlte),
              !.tile_5g_summary = SqlTile5gSummary(g5, n5g)]

\* ---- exports ------------------------------------------------------------

\* The orders in which a query without ORDER BY may deliver its rows: SQL
\* leaves the order to the executor (join method, scan order).
RowOrders(rows) ==
    {q \in [1..Cardinality(rows) -> rows] :
        \A i, j \in 1..Cardinality(rows) : q[i] = q[j] => i = j}

\* jsonb_agg(x): NULL over zero rows, else the array of the values in the
\* order the rows arrive
JsonbAgg(xs) == IF xs = <<>> THEN SqlNull ELSE Some(xs)

\* jsonb_build_object('type','Feature','geometry', ST_AsGeoJSON(geom)::jsonb,
\*                    'properties', to_jsonb(data) - 'geom')
Feature(row) ==
    [type |-> "Feature", geometry |-> row.geom,
     properties |-> [f \in DOMAIN row \ {"geom"} |-> row[f]]]

\* jsonb_build_object('type','FeatureCollection','features', jsonb_agg(...))
FeatureCollection(data) ==
    [type |-> "FeatureCollection",
     features |-> JsonbAgg([k \in 1..Len(data) |-> Feature(data[k])])]

\* FROM bb o JOIN towers_per_tile a ON a.tile_id = o.ogc_fid
ExportDataAll(d) ==
    {[geom |-> x[1].geom, tile_id |-> x[2].tile_id,
      towers_all |-> x[2].towers_all,
      avg_download_kbps |-> x[2].avg_download_kbps,
      avg_upload_kbps |-> x[2].avg_upload_kbps] :
        x \in {y \in d.bb \X d.towers_per_tile : y[2].tile_id = y[1].ogc_fid}}

\* NULL when the tile has no row in the nearest-distance table (LEFT JOIN)
NearestFor(nearest, fid) ==
    LET m == {n \in nearest : n.tile_id = fid} IN
    IF m = {} THEN SqlNull ELSE (CHOOSE n \in m : TRUE).meters

\* FROM bb o JOIN towers_per_tile_lte s ON s.tile_id = o.ogc_fid
\*           LEFT JOIN nearest_lte_distance d ON d.tile_id = o.ogc_fid
ExportDataLte(d) ==
    {[geom |-> x[1].geom, tile_id |-> x[2].tile_id,
      towers_lte |-> x[2].towers_lte,
      avg_download_kbps |-> x[2].avg_download_kbps,
      avg_upload_kbps |-> x[2].avg_upload_kbps,
      meters_to_nearest_lte |-> NearestFor(d.nearest_lte_distance, x[1].ogc_fid)] :
        x \in {y \in d.bb \X d.towers_per_tile_lte : y[2].tile_id = y[1].ogc_fid}}

ExportData5g(d) ==
    {[geom |-> x[1].geom, tile_id |-> x[2].tile_id,
      towers_5g |-> x[2].towers_5g,
      avg_download_kbps |-> x[2].avg_download_kbps,
      avg_upload_kbps |-> x[2].avg_upload_kbps,
      meters_to_nearest_5g |-> NearestFor(d.nearest_5g_distance, x[1].ogc_fid)] :
        x \in {y \in d.bb \X d.towers_per_tile_5g : y[2].tile_id = y[1].ogc_fid}}

\* Path(out_path).write_text(result.stdout.strip() + "\n")
WriteFile(fs, out_path, doc) ==
    {f \in fs : f.path # out_path} \cup {[path |-> out_path, doc |-> doc]}

(***************************************************************************)
(* ETL pipeline: main()                                                    *)
(***************************************************************************)

\* The store a run may start from: nothing loaded, or the speed-tile base
\* table loaded by a separate process with any of the candidate tiles.
WithBase(S) ==
    [EmptyDb EXCEPT !.schemas = {"ookla_tiles"}, !.tables = {T_BASE},
                    !.base = {BaseRow(fid) : fid \in S}]

EInit ==
    /\ towers_csv \in {SqlNull} \cup
          {Some(rows) : rows \in UNION {[1..n -> CsvRows] : n \in 0..MaxTowers}}
    /\ ookla_parquet \in {"missing", "present"}
    /\ db \in {EmptyDb} \cup {WithBase(S) : S \in SUBSET TileIds}
    /\ files = {}
    /\ pc = "start"
    /\ exit_status = "running"
    /\ calls = <<>>
    /\ log = <<>>
    /\ first_run = SqlNull

\* What no step of a run changes: its inputs and the record of the earlier run.
EEnv == <<towers_csv, ookla_parquet, first_run>>

\* One element of a command line: its text, and the settings of the run whose
\* values are written into it (an f-string or a variable).
Arg(text, embeds) == [text |-> text, embeds |-> embeds]
Lit(text) == Arg(text, {})

\* ["psql","-h",host,"-p",str(port),"-d",db,"-U",user,"--no-password", ...
PsqlConn ==
    <<Lit("psql"), Lit("-h"), Arg("host", {"host"}), Lit("-p"),
      Arg("port", {"port"}), Lit("-d"), Arg("db", {"db"}), Lit("-U"),
      Arg("user", {"user"}), Lit("--no-password")>>

\* "-v", "ON_ERROR_STOP=1"
OnErrorStop == <<Lit("-v"), Lit("ON_ERROR_STOP=1")>>

\* cmd of pg_table_exists
PgTableExistsCmd(sql) == PsqlConn \o <<Lit("-tA"), Lit("-c"), Lit(sql)>>

\* cmd of run_psql_sql
RunPsqlSqlCmd(sql) == PsqlConn \o OnErrorStop \o <<Lit("-c"), Lit(sql)>>

\* cmd of run_psql_copy_csv
RunPsqlCopyCsvCmd(sql) ==
    PsqlConn \o OnErrorStop \o
    <<Lit("-c"), Arg(sql, {"dest_table", "copy_cols", "csv_path"})>>

\* cmd of run_psql_to_file
RunPsqlToFileCmd(sql) ==
    PsqlConn \o OnErrorStop \o <<Lit("-tA"), Lit("-c"), Lit(sql)>>

\* dsn = f"PG:host={host} port={port} dbname={db} user={user} password={pwd}"
\* cmd = ["ogr2ogr", "-f", "PostgreSQL", dsn, parquet_path, "-nln", table,
\*        "-lco", f"SCHEMA={schema}", "-oo", "AUTODETECT_TYPE=YES"]
Ogr2ogrCmd ==
    <<Lit("ogr2ogr"), Lit("-f"), Lit("PostgreSQL"),
      Arg("PG:host= port= dbname= user= password=",
          {"host", "port", "db", "user", "pwd"}),
      Arg("parquet_path", {"parquet_path"}), Lit("-nln"),
      Arg("table", {"table"}), Lit("-lco"), Arg("SCHEMA=", {"schema"}),
      Lit("-oo"), Lit("AUTODETECT_TYPE=YES")>>

\* The command line a helper builds for the statement of a stage.
CmdOf(fn, stage) ==
    IF fn = "pg_table_exists" THEN PgTableExistsCmd(stage)
    ELSE IF fn = "run_psql_copy_csv" THEN RunPsqlCopyCsvCmd(stage)
    ELSE IF fn = "run_psql_to_file" THEN RunPsqlToFileCmd(stage)
    ELSE RunPsqlSqlCmd(stage)

\* env = os.environ.copy(); env["PGPASSWORD"] = pwd
PsqlEnv == [PGPASSWORD |-> "pwd"]

\* A line printed by the run; cmd is the command line it shows, if any.
Msg(kind, about) == [kind |-> kind, about |-> about, cmd |-> <<>>]

\* sh_show(cmd, elide_sql): the command line is printed, without its last
\* element when elide_sql
sh_show(cmd, elide_sql) ==
    [kind |-> "echo",
     about |-> IF elide_sql THEN "[SQL elided]" ELSE "",
     cmd |-> IF elide_sql THEN SubSeq(cmd, 1, Len(cmd) - 1) ELSE cmd]

\* A plausible slip: the exit status of the external process is not checked.
OnNonZeroExit_Ignored(next) == [pc |-> next, exit_status |-> exit_status]

\* subprocess.run(cmd, check=True, ...): a non-zero exit raises
\* CalledProcessError, which nothing catches: the process ends in failure.
OnNonZeroExit(next) == [pc |-> "failed", exit_status |-> "error"]

\* One external psql invocation at `stage`: on success the store becomes newdb
\* and control moves to `next`.
RunPsql(fn, stage, next, newdb) ==
    /\ pc = stage
    /\ \E ok \in BOOLEAN :
          /\ calls' = Append(calls, [fn |-> fn, stage |-> stage, ok |-> ok,
                                     cmd |-> CmdOf(fn, stage),
                                     env |-> PsqlEnv])
          /\ IF ok
             THEN /\ db' = newdb
                  /\ pc' = next
                  /\ UNCHANGED exit_status
             ELSE /\ db' = db
                  /\ pc' = OnNonZeroExit(next).pc
                  /\ exit_status' = OnNonZeroExit(next).exit_status

\* run_psql_sql: sh_show(cmd, elide_sql=True), then psql -c <sql>
run_psql_sql(stage, next, newdb) ==
    /\ RunPsql("run_psql_sql", stage, next, newdb)
    /\ log' = Append(log, sh_show(RunPsqlSqlCmd(stage), TRUE))
    /\ UNCHANGED <<files, EEnv, hvars>>

\* import_ookla_parquet_if_missing: the tests on parquet_path
ImportParquetCheckFile ==
    /\ pc = "start"
    /\ IF ookla_parquet = "unset"
       THEN pc' = "check_csv" /\ UNCHANGED log
       ELSE IF ookla_parquet = "missing"
       THEN /\ pc' = "check_csv"
            /\ log' = Append(log, Msg("parquet_not_found", "OOKLA_PARQUET"))
       ELSE pc' = "import_table_exists" /\ UNCHANGED log
    /\ UNCHANGED <<db, files, exit_status, calls, EEnv, hvars>>

\* import_ookla_parquet_if_missing: if pg_table_exists(...): print; return
ImportParquetTableExists ==
    /\ RunPsql("pg_table_exists", "import_table_exists",
               IF pg_table_exists(db, T_BASE) THEN "check_csv"
               ELSE "import_ensure_schema", db)
    /\ log' = IF pc' = "check_csv"
              THEN Append(log, Msg("parquet_import_skipped", T_BASE))
              ELSE log
    /\ UNCHANGED <<files, EEnv, hvars>>

\* import_ookla_parquet_if_missing: CREATE SCHEMA IF NOT EXISTS, then the
\* ogr2ogr command line is built and echoed by sh_show(cmd); the function
\* ends there.
ImportParquetEnsureSchema ==
    /\ RunPsql("run_psql_sql", "import_ensure_schema", "check_csv",
               [db EXCEPT !.schemas = @ \cup {"ookla_tiles"}])
    /\ log' = IF pc' = "check_csv"
              THEN log \o <<sh_show(RunPsqlSqlCmd("import_ensure_schema"), TRUE),
                            sh_show(Ogr2ogrCmd, FALSE)>>
              ELSE Append(log, sh_show(RunPsqlSqlCmd("import_ensure_schema"),
                                       TRUE))
    /\ UNCHANGED <<files, EEnv, hvars>>

\* if not Path(towers_path).exists(): raise FileNotFoundError(...)
CheckTowersCsv ==
    /\ pc = "check_csv"
    /\ IF IsNull(towers_csv)
       THEN /\ pc' = "failed"
            /\ exit_status' = "error"
            /\ log' = Append(log, Msg("FileNotFoundError", "towers_csv"))
       ELSE /\ pc' = "create_extension"
            /\ UNCHANGED <<exit_status, log>>
    /\ UNCHANGED <<db, files, calls, EEnv, hvars>>

\* CREATE EXTENSION IF NOT EXISTS postgis
CreateExtension ==
    /\ pc = "create_extension"
    /\ run_psql_sql("create_extension", "create_towers_schema",
                    [db EXCEPT !.postgis = TRUE])

\* CREATE SCHEMA IF NOT EXISTS {towers_schema} AUTHORIZATION {user}
CreateTowersSchema ==
    /\ pc = "create_towers_schema"
    /\ run_psql_sql("create_towers_schema", "create_ookla_schema",
                    [db EXCEPT !.schemas = @ \cup {"cell_towers"}])

\* CREATE SCHEMA IF NOT EXISTS {ookla_schema}
CreateOoklaSchema ==
    /\ pc = "create_ookla_schema"
    /\ run_psql_sql("create_ookla_schema", "create_towers_table",
                    [db EXCEPT !.schemas = @ \cup {"ookla_tiles"}])

\* DROP TABLE IF EXISTS towers; CREATE TABLE towers (...)
CreateTowersTable ==
    /\ pc = "create_towers_table"
    /\ run_psql_sql("create_towers_table", "copy_csv", SqlCreateTowers(db))

\* run_psql_copy_csv: print, then psql -c "\copy ..."
CopyTowersCsv ==
    /\ pc = "copy_csv"
    /\ RunPsql("run_psql_copy_csv", "copy_csv", "fix_towers",
               SqlCopyTowers(db, Val(towers_csv)))
    \* print("-> psql \\copy", csv_path, "->", dest_table, copy_cols or "")
    /\ log' = Append(log,
          [kind |-> "echo", about |-> "psql \\copy",
           cmd |-> <<Lit("psql \\copy"), Arg("csv_path", {"csv_path"}),
                     Arg("dest_table", {"dest_table"}),
                     Arg("copy_cols", {"copy_cols"})>>])
    /\ UNCHANGED <<files, EEnv, hvars>>

\* sql_fix_towers
FixTowersGeom ==
    /\ pc = "fix_towers"
    /\ run_psql_sql("fix_towers", "ensure_ookla_schema", SqlFixTowers(db))

\* CREATE SCHEMA IF NOT EXISTS {ookla_schema}  (second time)
EnsureOoklaSchema ==
    /\ pc = "ensure_ookla_schema"
    /\ run_psql_sql("ensure_ookla_schema", "gate_base",
                    [db EXCEPT !.schemas = @ \cup {"ookla_tiles"}])

\* A plausible slip of the gate: a missing table fails the run.
GateTarget_Fatal(exists, then, table) ==
    IF exists
    THEN [pc |-> then, exit_status |-> exit_status, log |-> log]
    ELSE [pc |-> "failed", exit_status |-> "error", log |-> log]

\* if pg_table_exists(...): <stages> else: print("Skipping ...: <table>")
\* and main() returns: the process exits 0.
GateTarget(exists, then, table) ==
    IF exists
    THEN [pc |-> then, exit_status |-> exit_status, log |-> log]
    ELSE [pc |-> "done", exit_status |-> "ok",
          log |-> Append(log, Msg("skipping_missing_table", table))]

\* One existence gate of main(): pg_table_exists, then the branch.
Gate(stage, then, table) ==
    /\ pc = stage
    /\ \E ok \in BOOLEAN :
          /\ calls' = Append(calls,
                 [fn |-> "pg_table_exists", stage |-> stage, ok |-> ok,
                  cmd |-> PgTableExistsCmd(stage), env |-> PsqlEnv])
          /\ LET to == IF ok THEN GateTarget(pg_table_exists(db, table), then, table)
                       ELSE [pc |-> OnNonZeroExit(then).pc,
                             exit_status |-> OnNonZeroExit(then).exit_status,
                             log |-> log] IN
             /\ pc' = to.pc
             /\ exit_status' = to.exit_status
             /\ log' = to.log
    /\ UNCHANGED <<db, files, EEnv, hvars>>

\* if pg_table_exists(qualified_table = ookla_schema.ookla_table)
GateBaseTable ==
    /\ pc = "gate_base"
    /\ Gate("gate_base", "sql_geom", T_BASE)

\* sql_geom
SubsetRegion ==
    /\ pc = "sql_geom"
    /\ run_psql_sql("sql_geom", "normalize_radio", SqlGeom(db))

\* sql_normalize_radio
NormalizeRadio ==
    /\ pc = "normalize_radio"
    /\ run_psql_sql("normalize_radio", "gate_subset", SqlNormalizeRadio(db))

\* if pg_table_exists(qualified_table = ookla_schema.ookla_table_bb)
GateSubsetTable ==
    /\ pc = "gate_subset"
    /\ Gate("gate_subset", "analysis", T_BB)

\* the analysis block
BuildAnalysis ==
    /\ pc = "analysis"
    /\ run_psql_sql("analysis", "export_all", SqlAnalysis(db))

\* run_psql_to_file: sh_show, psql -tA -c <sql>, write stdout to out_path,
\* print("→ wrote", out_path)
run_psql_to_file(stage, next, out_path, data, final) ==
    /\ RunPsql("run_psql_to_file", stage, next, db)
    /\ IF pc' = next
       THEN /\ \E rows \in RowOrders(data) :
                  files' = WriteFile(files, out_path, FeatureCollection(rows))
            /\ log' = log \o <<sh_show(RunPsqlToFileCmd(stage), TRUE),
                               Msg("wrote", out_path)>> \o final
       ELSE /\ files' = files
            /\ log' = Append(log, sh_show(RunPsqlToFileCmd(stage), TRUE))
    /\ UNCHANGED <<EEnv, hvars>>

ExportAll ==
    /\ pc = "export_all"
    /\ run_psql_to_file("export_all", "export_lte", "towers_per_tile.geojson",
                        ExportDataAll(db), <<>>)

ExportLte ==
    /\ pc = "export_lte"
    /\ run_psql_to_file("export_lte", "export_5g", "towers_per_tile_lte.geojson",
                        ExportDataLte(db), <<>>)

Export5g ==
    /\ pc = "export_5g"
    /\ run_psql_to_file("export_5g", "complete", "towers_per_tile_5g.geojson",
                        ExportData5g(db), <<>>)

\* print("ETL complete!") and the three paths; main() returns, exit status 0
Complete ==
    /\ pc = "complete"
    /\ pc' = "done"
    /\ exit_status' = "ok"
    /\ log' = Append(log, Msg("complete", "ETL complete"))
    /\ UNCHANGED <<db, files, calls, EEnv, hvars>>

ENext ==
    \/ ImportParquetCheckFile
    \/ ImportParquetTableExists
    \/ ImportParquetEnsureSchema
    \/ CheckTowersCsv
    \/ CreateExtension
    \/ CreateTowersSchema
    \/ CreateOoklaSchema
    \/ CreateTowersTable
    \/ CopyTowersCsv
    \/ FixTowersGeom
    \/ EnsureOoklaSchema
    \/ GateBaseTable
    \/ SubsetRegion
    \/ NormalizeRadio
    \/ GateSubsetTable
    \/ BuildAnalysis
    \/ ExportAll
    \/ ExportLte
    \/ Export5g
    \/ Complete

\* The program is started once more after a run that ended successfully,
\* against the same inputs and the store and files that run left behind.
Rerun ==
    /\ pc = "done"
    /\ IsNull(first_run)
    /\ first_run' = Some([db |-> db, files |-> files])
    /\ pc' = "start"
    /\ exit_status' = "running"
    /\ calls' = <<>>
    /\ log' = <<>>
    /\ UNCHANGED <<towers_csv, ookla_parquet, db, files, hvars>>

(***************************************************************************)
(* The statement sql_normalize_radio on its own: psql executes it against  *)
(* the tower table as the pipeline has it at that stage (created, loaded,  *)
(* geometry fixed), once and then again.                                   *)
(***************************************************************************)

\* Bounds of the model: rows of the tower table, executions of the statement.
MaxNormRows == 2
MaxNormRuns == 2

\* Raw radio labels as they occur in registry CSVs, with the cases the rules
\* of the CASE expression tell apart.
NormLabels ==
    {SqlNull,
     Some(<<"L", "T", "E">>),
     Some(<<"l", "t", "e">>),
     Some(<<"N", "R">>),
     Some(<<"N", "R", "5", "G">>),
     Some(<<"5", "G">>),
     Some(<<"L", "T", "E", "_", "N", "R">>),
     Some(<<"N", "R", "X">>),
     Some(<<"H", "S", "P", "A", "+">>),
     Some(<<"U", "M", "T", "S">>),
     Some(<<"G", "S", "M">>),
     Some(<<"F", "O", "O">>)}

NormCsvRows == [pos : {Some(4)}, radio : NormLabels]

\* The store when control reaches sql_normalize_radio: towers dropped and
\* created, the CSV copied in, the geometry column added and filled.
TowersLoaded(rows) ==
    SqlFixTowers(SqlCopyTowers(SqlCreateTowers(WithBase({})), rows))

NInit ==
    /\ \E rows \in UNION {[1..n -> NormCsvRows] : n \in 1..MaxNormRows} :
          /\ towers_csv = Some(rows)
          /\ db = TowersLoaded(rows)
    /\ ookla_parquet = "missing"
    /\ files = {}
    /\ pc = "normalize_radio"
    /\ exit_status = "running"
    /\ calls = <<>>
    /\ log = <<>>
    /\ first_run = SqlNull

\* run_psql_sql(sql = sql_normalize_radio), the statement succeeding; control
\* stays at the statement so that it can be executed again.
PsqlNormalizeRadio ==
    /\ pc = "normalize_radio"
    /\ Len(calls) < MaxNormRuns
    /\ db' = SqlNormalizeRadio(db)
    /\ calls' = Append(calls, [fn |-> "run_psql_sql",
                               stage |-> "normalize_radio", ok |-> TRUE,
                               cmd |-> RunPsqlSqlCmd("normalize_radio"),
                               env |-> PsqlEnv])
    /\ log' = Append(log, sh_show(RunPsqlSqlCmd("normalize_radio"), TRUE))
    /\ UNCHANGED <<pc, exit_status, files, EEnv, hvars>>

\* The harvester is not running while the pipeline is.
HIdle ==
    /\ LAT_MIN = 0 /\ LON_MIN = 0 /\ LAT_MAX = 0 /\ LON_MAX = 0
    /\ STEP_LAT = 1 /\ STEP_LON = 1
    /\ hpc = "idle"
    /\ lat = 0 /\ lon = 0 /\ lat_top = 0 /\ lon_right = 0
    /\ tiles_visited = 0 /\ count = 0 /\ pages = 0 /\ offset = 0
    /\ page_i = 0 /\ wrote_header = FALSE /\ total_rows_written = 0
    /\ out_header = <<>> /\ visited = <<>> /\ reported = FALSE
    /\ tile_pages = 0 /\ tile_rows = 0 /\ tile_clean = TRUE
    /\ sum_counts = 0 /\ all_clean = TRUE /\ slept = TRUE
    /\ attempts = [made |-> 0, sleeps |-> 0, raised |-> FALSE]
    /\ hevent = "start" /\ hprinted = FALSE


\* The pipeline is not running while the harvester is.
EIdle ==
    /\ towers_csv = SqlNull
    /\ ookla_parquet = "unset"
    /\ db = EmptyDb
    /\ files = {}
    /\ pc = "idle"
    /\ exit_status = "none"
    /\ calls = <<>>
    /\ log = <<>>
    /\ first_run = SqlNull

(***************************************************************************)
(* Specifications                                                          *)
(***************************************************************************)

HNext ==
    \/ OuterLoop
    \/ InnerLoop
    \/ GetSizeOk
    \/ GetSizeUnparsable
    \/ GetSizeFails
    \/ PageFetchOk
    \/ PageFetchEmpty
    \/ PageFetchFails
    \/ PagesDone

\* A run of the harvester: the pipeline is idle.
InitHarvest ==
    /\ EIdle
    /\ HInit

\* A run of the pipeline: the harvester is idle.
InitETL ==
    /\ HIdle
    /\ EInit

SpecHarvest == InitHarvest /\ [][HNext]_vars

SpecHarvestFair == InitHarvest /\ [][HNext]_vars /\ WF_vars(HNext)

SpecETL == InitETL /\ [][ENext]_vars

\* A run of the pipeline followed by a second run.
RerunNext ==
    \/ ENext
    \/ Rerun

SpecRerun == InitETL /\ [][RerunNext]_vars

\* The normalizer statement executed against a loaded tower table.
InitNormalize ==
    /\ HIdle
    /\ NInit

SpecNormalize == InitNormalize /\ [][PsqlNormalizeRadio]_vars

(***************************************************************************)
(* Properties of the harvester                                             *)
(***************************************************************************)

\* The tile opened last is finished: control is back at a loop test.
TileFinished == hpc \in {"inner", "outer", "done"} /\ visited # <<>>

\* The least number of pages of LIMIT records that hold n records.
PagesNeeded(n) ==
    CHOOSE p \in 0..n : p * LIMIT >= n /\ (p = 0 \/ (p - 1) * LIMIT < n)

\* C5: for every tile whose count call returned, the number of get_page_csv
\* calls issued for the tile is ceil(count / LIMIT); a count of 0 gets none.
C5_PageFetchCount ==
    /\ (TileFinished /\ reported) => tile_pages = PagesNeeded(count)
    /\ (TileFinished /\ reported /\ count = 0) => tile_pages = 0
    /\ (hpc = "page" /\ reported) => tile_pages <= PagesNeeded(count)

C5_Witness ==
    /\ TileFinished /\ reported
    /\ count = LIMIT + 1
    /\ tile_pages = 2

\* C6: absent any count or page failure, with every page holding a header line
\* and the records at its offset, the rows written for a tile equal the tile's
\* reported count, and the rows written over the harvest equal the sum of the
\* reported counts.
C6_RowsEqualCounts ==
    /\ (TileFinished /\ reported /\ tile_clean) => tile_rows = count
    /\ (TileFinished /\ all_clean) => total_rows_written = sum_counts
    /\ (TileFinished /\ all_clean /\ sum_counts > 0) => out_header = <<"header">>

C6_Witness ==
    /\ hpc = "done" /\ all_clean
    /\ Len(visited) >= 2
    /\ tile_rows = LIMIT + 1
    /\ total_rows_written > tile_rows

\* The unit squares of the region, named by their lower-left corner.
RegionCells ==
    {c \in (LAT_MIN..(LAT_MAX - 1)) \X (LON_MIN..(LON_MAX - 1)) : TRUE}

TileHolds(t, c) ==
    /\ t.latmin <= c[1] /\ c[1] + 1 <= t.latmax
    /\ t.lonmin <= c[2] /\ c[2] + 1 <= t.lonmax

\* C7: the tiles visited cover the region exactly: every tile lies inside the
\* region, is non-empty and no larger than the step in either dimension, tiles
\* following one another in a row share an edge, and at the end every unit
\* square of the region lies in exactly one tile (no gap, no overlap).
C7_ExactCover ==
    /\ \A i \in 1..Len(visited) :
          LET t == visited[i] IN
          /\ LAT_MIN <= t.latmin /\ t.latmax <= LAT_MAX
          /\ LON_MIN <= t.lonmin /\ t.lonmax <= LON_MAX
          /\ t.latmin < t.latmax /\ t.latmax - t.latmin <= STEP_LAT
          /\ t.lonmin < t.lonmax /\ t.lonmax - t.lonmin <= STEP_LON
    /\ \A i \in 1..(Len(visited) - 1) :
          LET t == visited[i]
              n == visited[i + 1] IN
          IF n.latmin = t.latmin
          THEN n.lonmin = t.lonmax /\ n.latmax = t.latmax
          ELSE /\ t.lonmax = LON_MAX /\ n.lonmin = LON_MIN
               /\ n.latmin = t.latmax
    /\ hpc = "done" =>
          \A c \in RegionCells :
             Cardinality({i \in 1..Len(visited) : TileHolds(visited[i], c)}) = 1

\* A finished harvest whose last row and last column were clipped.
C7_Witness ==
    /\ hpc = "done"
    /\ Len(visited) = 4
    /\ visited[4].latmax - visited[4].latmin < STEP_LAT
    /\ visited[4].lonmax - visited[4].lonmin < STEP_LON
    /\ visited[4].latmax = LAT_MAX /\ visited[4].lonmax = LON_MAX

\* The least number of steps of the given size that span a length.
StepsNeeded(len, step) ==
    CHOOSE k \in 0..len : k * step >= len /\ (k = 0 \/ (k - 1) * step < len)

\* The number of tiles of the grid over the region.
GridTiles ==
    IF LAT_MIN < LAT_MAX /\ LON_MIN < LON_MAX
    THEN StepsNeeded(LAT_MAX - LAT_MIN, STEP_LAT)
         * StepsNeeded(LON_MAX - LON_MIN, STEP_LON)
    ELSE 0

\* C8: whatever count calls and page calls fail, the harvest terminates, and
\* when it does every tile of the grid has been visited exactly once.
C8_Terminates ==
    /\ <>(hpc = "done")
    /\ [](hpc = "done" =>
            /\ tiles_visited = GridTiles
            /\ Len(visited) = GridTiles
            /\ \A i, j \in 1..Len(visited) : visited[i] = visited[j] => i = j)

\* A harvest that finished although its last count call failed.
C8_Witness ==
    /\ hpc = "done"
    /\ hevent = "size_failed"
    /\ ~all_clean
    /\ Len(visited) >= 4

(***************************************************************************)
(* Properties of the pipeline                                              *)
(***************************************************************************)

Last(q) == q[Len(q)]

\* The call made at `stage` in this run returned successfully.
StageRan(stage) == \E i \in 1..Len(calls) : calls[i].stage = stage /\ calls[i].ok

\* A call was issued at `stage`, whatever its outcome.
StageCalled(stage) == \E i \in 1..Len(calls) : calls[i].stage = stage

ExportStages == {"export_all", "export_lte", "export_5g"}

\* C1: every export document written has a 'features' member that is a list,
\* never null, whatever the region-subset and aggregate tables hold.
C1_FeaturesIsAList == \A f \in files : ~IsNull(f.doc.features)

\* C2: an external call that exits non-zero is the last external call of the
\* run (no later call, no retry of it), the process ends in failure, and no
\* export file is written from then on.
C2_FailFast ==
    /\ \A i \in 1..Len(calls) :
          ~calls[i].ok =>
             /\ i = Len(calls)
             /\ pc = "failed"
             /\ exit_status = "error"
    /\ Cardinality(files) =
          Cardinality({i \in 1..Len(calls) :
                          calls[i].fn = "run_psql_to_file" /\ calls[i].ok})
    /\ \A i, j \in 1..Len(calls) : calls[i].stage = calls[j].stage => i = j

\* The second export query failed after the first export was written.
C2_Witness ==
    /\ pc = "failed"
    /\ Len(calls) > 1
    /\ ~Last(calls).ok
    /\ Last(calls).stage = "export_lte"
    /\ Cardinality(files) = 1

\* C3: when the speed-tile base table (or the region subset) does not exist,
\* subsetting, aggregation and export are skipped, a diagnostic naming the
\* missing table is printed and the run ends successfully; a run fails only
\* on a missing CSV or a failed external call.
C3_SkipOnMissingTable ==
    /\ (pc = "done" /\ ~pg_table_exists(db, T_BASE)) =>
          /\ exit_status = "ok"
          /\ \E i \in 1..Len(log) : log[i] = Msg("skipping_missing_table", T_BASE)
          /\ ~StageCalled("sql_geom") /\ ~StageCalled("analysis")
          /\ \A st \in ExportStages : ~StageCalled(st)
          /\ files = {}
          /\ db.tables \cap (AnalysisTables \cup {T_BB}) = {}
    /\ (pc = "done" /\ pg_table_exists(db, T_BASE) /\ ~pg_table_exists(db, T_BB)) =>
          /\ exit_status = "ok"
          /\ \E i \in 1..Len(log) : log[i] = Msg("skipping_missing_table", T_BB)
          /\ ~StageCalled("analysis")
          /\ \A st \in ExportStages : ~StageCalled(st)
          /\ files = {}
    /\ pc = "failed" =>
          \/ IsNull(towers_csv)
          \/ calls # <<>> /\ ~Last(calls).ok

\* A run that loaded towers, found no base table and ended successfully.
C3_Witness ==
    /\ pc = "done"
    /\ exit_status = "ok"
    /\ ~pg_table_exists(db, T_BASE)
    /\ StageRan("fix_towers")
    /\ Len(db.towers) > 0
    /\ Last(log) = Msg("skipping_missing_table", T_BASE)

\* C4: in every run where the geometry normalizer (stage 3) completed and
\* that ran to its end, the category normalizer ran and labelled every tower
\* row, also when the base table is absent.
C4_NormalizerNeedsOnlyTowers ==
    (pc = "done" /\ StageRan("fix_towers")) =>
       /\ StageRan("normalize_radio")
       /\ "radio_norm" \in db.towers_cols
       /\ \A i \in 1..Len(db.towers) : ~IsNull(db.towers[i].radio_norm)

\* The towers of the table that lie in a tile, and those of one category.
TowersIn(U) ==
    {i \in 1..Len(db.towers) :
        ~IsNull(db.towers[i].geom) /\ Val(db.towers[i].geom) \in Val(U.geom)}
TowersOfIn(cat, U) == {i \in TowersIn(U) : db.towers[i].radio_norm = Some(cat)}

\* C9: once the aggregate tables are built, every region-subset unit has
\* exactly one row in each count table, holding the number of tower rows that
\* intersect it (all, LTE, 5G): 0, not null and not a missing row, for a unit
\* without towers.
C9_CountsPerUnit ==
    StageRan("analysis") =>
       /\ \A U \in db.bb :
             /\ {r.towers_all : r \in {x \in db.towers_per_tile :
                                          x.tile_id = U.ogc_fid}}
                   = {Cardinality(TowersIn(U))}
             /\ {r.towers_lte : r \in {x \in db.towers_per_tile_lte :
                                          x.tile_id = U.ogc_fid}}
                   = {Cardinality(TowersOfIn("LTE", U))}
             /\ {r.towers_5g : r \in {x \in db.towers_per_tile_5g :
                                          x.tile_id = U.ogc_fid}}
                   = {Cardinality(TowersOfIn("5G", U))}
       /\ Cardinality(db.towers_per_tile) = Cardinality(db.bb)
       /\ Cardinality(db.towers_per_tile_lte) = Cardinality(db.bb)
       /\ Cardinality(db.towers_per_tile_5g) = Cardinality(db.bb)

\* One unit holds two LTE towers, another unit holds no tower at all.
C9_Witness ==
    /\ StageRan("analysis")
    /\ \E a, b \in db.towers_per_tile_lte :
          /\ a.towers_lte = 2
          /\ b.tile_id # a.tile_id /\ b.towers_lte = 0
    /\ \E r \in db.towers_per_tile : r.towers_all = 0

NoTowerOf(cat) == \A i \in 1..Len(db.towers) : db.towers[i].radio_norm # Some(cat)

FileAt(path) == {f \in files : f.path = path}

\* The features of an export document whose 'features' member is a list.
Features(doc) == {Val(doc.features)[k] : k \in DOMAIN Val(doc.features)}

\* C10: when no tower row has the target category, every region-subset unit
\* has exactly one row in that category's summary table, with a null
\* nearest distance, and one feature with a null distance in its export.
C10_UnitsKeptWithoutCategory ==
    /\ (StageRan("analysis") /\ NoTowerOf("LTE")) =>
          /\ {r.tile_id : r \in db.tile_lte_summary} = {U.ogc_fid : U \in db.bb}
          /\ Cardinality(db.tile_lte_summary) = Cardinality(db.bb)
          /\ \A r \in db.tile_lte_summary : IsNull(r.meters_to_nearest_lte)
          /\ \A f \in FileAt("towers_per_tile_lte.geojson"), U \in db.bb :
                \E x \in Features(f.doc) :
                   /\ x.properties.tile_id = U.ogc_fid
                   /\ IsNull(x.properties.meters_to_nearest_lte)
    /\ (StageRan("analysis") /\ NoTowerOf("5G")) =>
          /\ {r.tile_id : r \in db.tile_5g_summary} = {U.ogc_fid : U \in db.bb}
          /\ Cardinality(db.tile_5g_summary) = Cardinality(db.bb)
          /\ \A r \in db.tile_5g_summary : IsNull(r.meters_to_nearest_5g)
          /\ \A f \in FileAt("towers_per_tile_5g.geojson"), U \in db.bb :
                \E x \in Features(f.doc) :
                   /\ x.properties.tile_id = U.ogc_fid
                   /\ IsNull(x.properties.meters_to_nearest_5g)

\* A finished run with two units and towers, none of them LTE.
C10_Witness ==
    /\ pc = "done"
    /\ FileAt("towers_per_tile_lte.geojson") # {}
    /\ Cardinality(db.bb) = 2
    /\ Len(db.towers) > 0
    /\ NoTowerOf("LTE")
    /\ ~NoTowerOf("5G")
    /\ Cardinality(db.tile_lte_summary) = 2

(***************************************************************************)
(* Properties of the category normalizer                                   *)
(***************************************************************************)

\* The rules of the normalizer in their required order, with the label each
\* assigns.
RuleOrder == <<"5G", "LTE", "3G", "2G">>

RuleMatches(rule, u) ==
    IF rule = "5G" THEN Matches5G(u)
    ELSE IF rule = "LTE" THEN Contains(u, <<"L", "T", "E">>)
    ELSE IF rule = "3G" THEN u \in Names3G
    ELSE u \in Names2G

\* The label of the first rule in RuleOrder that matches u, OTHER if none.
FirstMatch(u) ==
    IF \E k \in 1..Len(RuleOrder) : RuleMatches(RuleOrder[k], u)
    THEN RuleOrder[CHOOSE k \in 1..Len(RuleOrder) :
                      /\ RuleMatches(RuleOrder[k], u)
                      /\ \A j \in 1..(k - 1) : ~RuleMatches(RuleOrder[j], u)]
    ELSE "OTHER"

\* The labelled rows of the tower table.
Labelled == {i \in 1..Len(db.towers) : ~IsNull(db.towers[i].radio_norm)}

RowHas(i, label, cat) ==
    db.towers[i].radio = label => db.towers[i].radio_norm = Some(cat)

\* C11: every labelled tower row carries the label of the first rule, in the
\* order 5G, LTE, 3G, 2G, that matches its upper-cased raw label, and OTHER
\* when none matches or the raw label is null; in particular HSPA+ is 3G,
\* NR5G is 5G, FOO is OTHER, and LTE_NR, which the 5G and the LTE rule both
\* match, is 5G.
C11_FirstMatchWins ==
    \A i \in Labelled :
       /\ Val(db.towers[i].radio_norm) =
             FirstMatch(Upper(Coalesce(db.towers[i].radio, <<>>)))
       /\ RowHas(i, Some(<<"H", "S", "P", "A", "+">>), "3G")
       /\ RowHas(i, Some(<<"N", "R", "5", "G">>), "5G")
       /\ RowHas(i, Some(<<"F", "O", "O">>), "OTHER")
       /\ RowHas(i, Some(<<"L", "T", "E", "_", "N", "R">>), "5G")
       /\ RowHas(i, Some(<<"l", "t", "e">>), "LTE")
       /\ RowHas(i, Some(<<"N", "R", "X">>), "OTHER")
       /\ RowHas(i, Some(<<"G", "S", "M">>), "2G")
       /\ RowHas(i, SqlNull, "OTHER")

\* The statement has run on a table holding a label that two rules match and
\* a row without a label.
C11_Witness ==
    /\ Len(calls) >= 1
    /\ \E i, j \in Labelled :
          /\ db.towers[i].radio = Some(<<"L", "T", "E", "_", "N", "R">>)
          /\ db.towers[i].radio_norm = Some("5G")
          /\ IsNull(db.towers[j].radio)
          /\ db.towers[j].radio_norm = Some("OTHER")

\* C17: an execution of the normalizer statement leaves every row that
\* already has a canonical category as it is, and an execution after the
\* first changes no row of the tower table: the labels after two runs are
\* the labels after one.
C17_NormalizerIdempotent ==
    [][PsqlNormalizeRadio =>
          /\ Len(db'.towers) = Len(db.towers)
          /\ \A i \in Labelled : db'.towers[i] = db.towers[i]
          /\ (Len(calls) >= 1 => db'.towers = db.towers)]_vars

\* The statement has run twice on a table with a row that a rule matches
\* and a row that none matches.
C17_Witness ==
    /\ Len(calls) = 2
    /\ Labelled = 1..Len(db.towers)
    /\ \E i, j \in Labelled :
          /\ db.towers[i].radio_norm = Some("3G")
          /\ db.towers[j].radio_norm = Some("OTHER")

(***************************************************************************)
(* Properties of a second run of the pipeline                              *)
(***************************************************************************)

\* The tables a run builds or rebuilds.
BuiltTables(d) ==
    [towers |-> d.towers, bb |-> d.bb,
     analysis |-> [t \in AnalysisTables |-> d[t]]]

\* A second run has ended successfully.
SecondRunDone == pc = "done" /\ ~IsNull(first_run)

\* C12: when a second run against unchanged inputs has ended, the tower,
\* region-subset and aggregate tables hold what they held after the first
\* run, and the export documents are the documents the first run wrote.
C12_RerunSameResult ==
    SecondRunDone =>
       /\ BuiltTables(db) = BuiltTables(Val(first_run).db)
       /\ files = Val(first_run).files

(***************************************************************************)
(* Properties of the command lines of the pipeline                         *)
(***************************************************************************)

\* The command line holds the value of the database password.
ShowsPassword(cmd) == \E k \in 1..Len(cmd) : "pwd" \in cmd[k].embeds

\* C13: no command line the run has executed, and no command line it has
\* built and printed, holds the database password; the password reaches the
\* external process through PGPASSWORD in its environment only.
C13_PasswordOnlyInEnvironment ==
    /\ \A i \in 1..Len(calls) :
          ~ShowsPassword(calls[i].cmd) /\ calls[i].env.PGPASSWORD = "pwd"
    /\ \A i \in 1..Len(log) : ~ShowsPassword(log[i].cmd)

(***************************************************************************)
(* Properties of the harvester's calls to the registry                     *)
(***************************************************************************)

\* The next step of the harvester issues a count call or a page call.
AboutToCall == hpc = "size" \/ (hpc = "page" /\ page_i < pages)

\* C14: whenever the harvester is about to issue a count call or a page
\* call, a delay of SLEEP_BETWEEN_CALLS has elapsed since its previous call
\* to the registry.
C14_DelayBeforeEveryCall == AboutToCall => slept

\* The last call to the registry failed in every attempt / returned.
CallFailed == hevent \in {"size_failed", "page_failed"}
CallReturned ==
    hevent \in {"size_ok", "size_unparsable", "page_ok", "page_empty"}

\* C15: a request is attempted at most max_retries times, with one delay
\* after each failed attempt, and returns on the first success; when every
\* attempt failed the harvest loop prints a warning and goes on: after a
\* failed count call the tile is left without any page call, after a failed
\* page call the offset has advanced by LIMIT like after any other page.
C15_BoundedRetriesThenSkip ==
    /\ attempts.made <= max_retries
    /\ CallReturned =>
          /\ ~attempts.raised
          /\ attempts.sleeps = attempts.made - 1
    /\ CallFailed =>
          /\ attempts.raised
          /\ attempts.made = max_retries
          /\ attempts.sleeps = max_retries
          /\ hprinted
          /\ hpc \in {"outer", "inner", "size", "page", "done"}
    /\ (hevent = "size_failed" /\ hpc = "inner"
          /\ lat = visited[Len(visited)].latmin) =>
          tile_pages = 0 /\ lon = visited[Len(visited)].lonmax
    /\ hpc = "page" => offset = page_i * LIMIT /\ tile_pages = page_i

\* A page call failed in every attempt and the loop is about to fetch the
\* next page of the tile.
C15_Witness ==
    /\ hevent = "page_failed"
    /\ attempts.made = max_retries
    /\ hpc = "page" /\ page_i = 1 /\ page_i < pages
    /\ offset = LIMIT

\* The last call to the registry ended in an error that the harvester caught
\* and did not propagate.
ErrorAbsorbed == hevent \in {"size_failed", "size_unparsable", "page_failed"}

\* C16: when the harvester has caught an error of a count call, of the
\* parsing of a count response or of a page call, it has printed a
\* diagnostic for it.
C16_NoSilentSwallow == ErrorAbsorbed => hprinted

(***************************************************************************)
(* Properties of the parquet import                                        *)
(***************************************************************************)

\* import_ookla_parquet_if_missing found the file present and the table
\* missing, and has returned.
ImportReturned == StageRan("import_ensure_schema")

\* C18: once import_ookla_parquet_if_missing has returned from the case
\* 'file present, table missing', the speed-tile base table exists in the
\* store, and the base-table gate of the run does not skip.
C18_ImportCreatesBaseTable ==
    ImportReturned =>
       /\ pg_table_exists(db, T_BASE)
       /\ \A i \in 1..Len(log) : log[i].kind # "skipping_missing_table"

====
